---- MODULE Spec2Model ----
(***************************************************************************)
(* State-machine model of bench_io_uring.ts: the top-level benchmark       *)
(* script (directory creation, the single-operation loop, the concurrent   *)
(* loop, the composite scenario, the final cleanup) and the functions      *)
(* benchWrite, benchRead, benchStat, benchConcurrent,                      *)
(* benchRealWorldScenario and cleanup.  The file system is the workspace   *)
(* directory: whether it exists, and its entries by name.  Every await of  *)
(* a benchmark operation is two steps (the operation is issued, the        *)
(* operation completes); an operation completes with success, with the     *)
(* failure its arguments force (missing directory, target is a directory,  *)
(* missing file), or with a transient failure of the file system, of which *)
(* a run sees at most MaxFaults.  The chains of benchConcurrent and the     *)
(* operations of a fan-out of the composite scenario complete in any       *)
(* order.  An operation of cleanup is one step.  The kernel version check   *)
(* is computed on the text read from /proc/sys/kernel/osrelease as split    *)
(* and Number compute it.  SpecCleanup is cleanup called twice in a row on  *)
(* a directory of any content; SpecLive is the script run by an event loop  *)
(* that always takes a step that is possible.                               *)
(***************************************************************************)
EXTENDS Integers, Sequences, FiniteSets, TLC

(* ------------------------------ bounds --------------------------------- *)

\* How many of the SIZES buckets the two loops go through.
NumSizes == 2

\* ITERATIONS (100 in the script) and CONCURRENT_OPS (10 in the script).
ITERATIONS == 2
CONCURRENT_OPS == 2

\* How many file-system operations of a run may fail transiently.
MaxFaults == 1

\* How long the text read from /proc/sys/kernel/osrelease may be.
MaxVersionLen == 3

(* ------------------------- program constants --------------------------- *)

SIZES ==
  << [name |-> "1KB", size |-> 1024],
     [name |-> "4KB", size |-> 4 * 1024],
     [name |-> "16KB", size |-> 16 * 1024],
     [name |-> "64KB", size |-> 64 * 1024],
     [name |-> "256KB", size |-> 256 * 1024],
     [name |-> "1MB", size |-> 1024 * 1024],
     [name |-> "4MB", size |-> 4 * 1024 * 1024] >>

testDir == "./bench_deno_tmp"

\* The documents of benchRealWorldScenario, in array order; content stands
\* for the JSON.stringify text of the document.
ScenarioFiles ==
  << [name |-> "config.json", content |-> "json:config"],
     [name |-> "settings.json", content |-> "json:settings"],
     [name |-> "data.json", content |-> "json:data"],
     [name |-> "cache.json", content |-> "json:cache"] >>

\* Mutant of line 236: the last scenario name left out.
CleanupJsonNamesShort == << "config.json", "settings.json", "data.json" >>

\* The names cleanup removes besides the .tmp files, in array order.
CleanupJsonNames == << "config.json", "settings.json", "data.json", "cache.json" >>

(* ----------------------------- path names ------------------------------ *)

EndsWith(s, suf) ==
  /\ Len(s) >= Len(suf)
  /\ SubSeq(s, Len(s) - Len(suf) + 1, Len(s)) = suf

StartsWith(s, pre) ==
  /\ Len(s) >= Len(pre)
  /\ SubSeq(s, 1, Len(pre)) = pre

\* `${dir}/${name}`
PathOf(dir, name) == dir \o "/" \o name

\* The entry of the workspace directory a path of the form testDir/name names.
EntryOf(path) == SubSeq(path, Len(testDir) + 2, Len(path))

\* Mutant of line 137: the index left out of the name.
WritePathFixed(dir, i) == PathOf(dir, "write_0.tmp")

WritePath(dir, i) == PathOf(dir, "write_" \o ToString(i) \o ".tmp")
ReadPath(dir, i) == PathOf(dir, "read_" \o ToString(i) \o ".tmp")
StatPath(dir) == PathOf(dir, "stat.tmp")
ConcurrentPath(dir, i) == PathOf(dir, "concurrent_" \o ToString(i) \o ".tmp")
ScenarioPath(dir, d) == PathOf(dir, ScenarioFiles[d].name)

(* ------------------ kernel version check, lines 40-49 ------------------ *)

\* Deno.build.os
OperatingSystems == {"linux", "darwin"}

\* The characters a release text is made of here: digits, the separator, a
\* character that is neither, and the newline the file ends with.
VersionChars == << "5", "6", ".", "g", "\n" >>

RECURSIVE TextsOfLen(_)
TextsOfLen(n) ==
  IF n = 0 THEN {""}
  ELSE {t \o VersionChars[k] : t \in TextsOfLen(n - 1),
                               k \in 1 .. Len(VersionChars)}

\* What /proc/sys/kernel/osrelease may hold.
Releases == UNION {TextsOfLen(n) : n \in 0 .. MaxVersionLen}

\* kernelVersion is not in scope.
NoVersion == "(out of scope)"

\* The value Number gives for a text that is no numeric literal.
NaN == -1

\* A variable of the destructuring pattern the array has no element for.
Undefined == -2

CharAt(s, k) == SubSeq(s, k, k)

DigitValue ==
  ("0" :> 0) @@ ("1" :> 1) @@ ("2" :> 2) @@ ("3" :> 3) @@ ("4" :> 4) @@
  ("5" :> 5) @@ ("6" :> 6) @@ ("7" :> 7) @@ ("8" :> 8) @@ ("9" :> 9)

IsDigit(c) == c \in DOMAIN DigitValue

WhiteSpace == {" ", "\n", "\t", "\r"}

\* The position of the first sep in s, 0 if there is none.
RECURSIVE IndexFrom(_, _, _)
IndexFrom(s, sep, k) ==
  IF k > Len(s) THEN 0
  ELSE IF CharAt(s, k) = sep THEN k
  ELSE IndexFrom(s, sep, k + 1)

\* s.split(sep): the pieces between the separators, empty ones included.
RECURSIVE Split(_, _)
Split(s, sep) ==
  LET k == IndexFrom(s, sep, 1)
  IN IF k = 0 THEN << s >>
     ELSE << SubSeq(s, 1, k - 1) >> \o Split(SubSeq(s, k + 1, Len(s)), sep)

\* Number strips white space at both ends of the text.
RECURSIVE TrimStart(_)
TrimStart(s) ==
  IF Len(s) > 0 /\ CharAt(s, 1) \in WhiteSpace
  THEN TrimStart(SubSeq(s, 2, Len(s)))
  ELSE s

RECURSIVE TrimEnd(_)
TrimEnd(s) ==
  IF Len(s) > 0 /\ CharAt(s, Len(s)) \in WhiteSpace
  THEN TrimEnd(SubSeq(s, 1, Len(s) - 1))
  ELSE s

\* The value of a text of decimal digits.
RECURSIVE Decimal(_)
Decimal(s) ==
  IF Len(s) = 0 THEN 0
  ELSE 10 * Decimal(SubSeq(s, 1, Len(s) - 1)) + DigitValue[CharAt(s, Len(s))]

\* Number(text): 0 for a text that is empty or white space, the value of a
\* text of decimal digits, NaN for any other text of these characters.
Number(text) ==
  LET t == TrimEnd(TrimStart(text))
  IN IF t = "" THEN 0
     ELSE IF \A k \in 1 .. Len(t) : IsDigit(CharAt(t, k)) THEN Decimal(t)
     ELSE NaN

\* Line 44: const [major, minor] = kernelVersion.split(".").map(Number)
VersionNumbers(text) ==
  LET pieces == Split(text, ".")
  IN [major |-> Number(pieces[1]),
      minor |-> IF Len(pieces) >= 2 THEN Number(pieces[2]) ELSE Undefined]

\* x > y, x >= y and x === y of numbers: false when one of them is NaN, and
\* undefined is compared as NaN.
IsNumber(x) == x \notin {NaN, Undefined}
Greater(x, y) == IsNumber(x) /\ IsNumber(y) /\ x > y
GreaterOrEqual(x, y) == IsNumber(x) /\ IsNumber(y) /\ x >= y
StrictEqual(x, y) == IsNumber(x) /\ IsNumber(y) /\ x = y

\* Line 45: major > 5 || (major === 5 && minor >= 6)
SupportsIoUring(text) ==
  LET v == VersionNumbers(text)
  IN Greater(v.major, 5) \/ (StrictEqual(v.major, 5) /\ GreaterOrEqual(v.minor, 6))

(* ------------------------------- state --------------------------------- *)

VARIABLES
  pc,         \* position of the top-level script
  b,          \* index into SIZES of the bucket of the running loop
  i,          \* loop counter of the running benchmark function
  dirExists,  \* whether the workspace directory exists
  files,      \* the entries of the workspace directory, by name
  inflight,   \* benchmark operations issued and not yet completed
  chain,      \* position of each chain / document of the running fan-out
  contents,   \* what the composite scenario's reads returned, by document
  cl,         \* position and locals of the running cleanup call
  out,        \* the timing lines printed so far
  opsDone,    \* operations completed since the running timer was started
  faults,     \* transient failures so far
  created,    \* history: entries written by the running phase
  completed,  \* history: operations of the running fan-out that completed
  swallowed,  \* history: housekeeping failures that were caught
  failed,     \* history: the operation whose failure ended the run
  kernelVersion,  \* the text read from /proc/sys/kernel/osrelease, in its block
  kernelLine      \* the line the kernel check printed

vars == << pc, b, i, dirExists, files, inflight, chain, contents, cl, out,
           opsDone, faults, created, completed, swallowed, failed,
           kernelVersion, kernelLine >>

\* An operation: who is -1 for the top-level sequence, else the index of the
\* chain or document that issued it; size and text are a write's payload.
Op(kind, path, who, size, text) ==
  [kind |-> kind, path |-> path, who |-> who, size |-> size, text |-> text]
NoOp == Op("none", "", -1, 0, "")
NoFailure == [op |-> NoOp, at |-> "none"]

File(size, text) == [kind |-> "file", size |-> size, text |-> text]
EmptyDir == [kind |-> "dir", size |-> 0, text |-> ""]
FullDir == [kind |-> "dirfull", size |-> 0, text |-> ""]

\* The locals of a cleanup call: at, its position; todo, the listed entries
\* still to be visited; j, the index into the scenario names; caller, the call
\* site; and as history: listed, whether readDir succeeded; tried, the
\* scenario names whose removal was attempted; removed, the entries the call
\* deleted; before, the directory when the call started.
ClIdle ==
  [at |-> "idle", todo |-> {}, j |-> 0, caller |-> "none", listed |-> FALSE,
   tried |-> {}, removed |-> {}, before |-> << >>, faultsBefore |-> 0]

(* ---------------------------- file system ------------------------------ *)

EmptyFs == [n \in {} |-> EmptyDir]

Restrict(fs, S) == [n \in S |-> fs[n]]

\* Deno.writeFile / Deno.writeTextFile: creates or truncates a regular file.
CanWrite(de, fs, path) ==
  /\ de
  /\ EntryOf(path) \in DOMAIN fs => fs[EntryOf(path)].kind = "file"
WriteResult(fs, path, size, text) ==
  [n \in DOMAIN fs \cup {EntryOf(path)} |->
     IF n = EntryOf(path) THEN File(size, text) ELSE fs[n]]

\* Deno.readFile / Deno.readTextFile: the target must be a regular file.
CanRead(de, fs, path) ==
  /\ de
  /\ EntryOf(path) \in DOMAIN fs
  /\ fs[EntryOf(path)].kind = "file"

\* Deno.stat: the target must exist.
CanStat(de, fs, path) == de /\ EntryOf(path) \in DOMAIN fs

\* Deno.remove without recursive: a file or an empty directory.
CanRemove(de, fs, name) ==
  /\ de
  /\ name \in DOMAIN fs
  /\ fs[name].kind # "dirfull"
RemoveResult(fs, name) == Restrict(fs, DOMAIN fs \ {name})

\* Deno.remove(testDir): the directory must exist and be empty.
CanRemoveDir(de, fs) == de /\ DOMAIN fs = {}

\* How an operation can complete: "ok"; "fail", the failure its arguments
\* force; "fault", a transient failure of an operation that could succeed.
Outcomes(can) ==
  IF ~can THEN {"fail"}
  ELSE IF faults < MaxFaults THEN {"ok", "fault"} ELSE {"ok"}
FaultsAfter(o) == IF o = "fault" THEN faults + 1 ELSE faults

CanDo(op) ==
  CASE op.kind = "write" -> CanWrite(dirExists, files, op.path)
    [] op.kind = "read" -> CanRead(dirExists, files, op.path)
    [] op.kind = "stat" -> CanStat(dirExists, files, op.path)
    [] OTHER -> FALSE

(* ------------------------------ initial -------------------------------- *)

\* What a workspace directory left by someone else, or by an earlier run that
\* was aborted, may hold: a stale scratch file of the 4MB bucket, a directory
\* with the scratch prefix and suffix, a foreign file, and a non-empty
\* directory under a scenario name.
PreExisting ==
  ("write_0.tmp" :> File(SIZES[7].size, "")) @@
  ("write_old.tmp" :> EmptyDir) @@
  ("notes.txt" :> File(5, "")) @@
  ("cache.json" :> FullDir)

\* The directories a run starts on: an empty one, one with a single one of
\* these entries, one with all of them.
InitialDirs ==
  {Restrict(PreExisting, S) :
     S \in {{}, DOMAIN PreExisting} \cup {{n} : n \in DOMAIN PreExisting}}

Init ==
  /\ pc = "probe"
  /\ b = 1
  /\ i = 0
  /\ dirExists \in BOOLEAN
  /\ files \in IF dirExists
               THEN InitialDirs
               ELSE {EmptyFs}
  /\ inflight = {}
  /\ chain = << >>
  /\ contents = << >>
  /\ cl = ClIdle
  /\ out = << >>
  /\ opsDone = 0
  /\ faults = 0
  /\ created = {}
  /\ completed = {}
  /\ swallowed = {}
  /\ failed = NoFailure
  /\ kernelVersion = NoVersion
  /\ kernelLine = "none"

\* cleanup(testDir) is called: Deno.readDir is the first thing it awaits.
CleanupCall(caller) ==
  [at |-> "readDir", todo |-> {}, j |-> 0, caller |-> caller,
   listed |-> FALSE, tried |-> {}, removed |-> {}, before |-> files,
   faultsBefore |-> faults]

(* ------------------------- top level, lines 28-65 ---------------------- *)

\* Lines 28-43: the banner and the system information.  Off Linux nothing
\* more is printed; on Linux /proc/sys/kernel/osrelease is read, and a read
\* that fails is caught: the "unknown" line is printed.
Probe ==
  /\ pc = "probe"
  /\ \E os \in OperatingSystems :
       IF os # "linux"
       THEN /\ pc' = "probed"
            /\ UNCHANGED << kernelVersion, kernelLine >>
       ELSE \/ /\ pc' = "probed"
               /\ kernelLine' = "unknown"
               /\ UNCHANGED kernelVersion
            \/ \E text \in Releases :
                 /\ kernelVersion' = text
                 /\ pc' = "kernel"
                 /\ UNCHANGED kernelLine
  /\ UNCHANGED << b, i, dirExists, files, inflight, chain, contents, cl, out,
                  opsDone, faults, created, completed, swallowed, failed >>

\* Lines 44-49: the version is split and compared, and the verdict is printed.
\* Nothing here throws.
KernelCheck ==
  /\ pc = "kernel"
  /\ kernelLine' = IF SupportsIoUring(kernelVersion) THEN "supports"
                   ELSE "does NOT support"
  /\ pc' = "probed"
  /\ UNCHANGED << b, i, dirExists, files, inflight, chain, contents, cl, out,
                  opsDone, faults, created, completed, swallowed, failed,
                  kernelVersion >>

\* Lines 50-57: the block of kernelVersion is left and the note is printed.
ProbeEnd ==
  /\ pc = "probed"
  /\ kernelVersion' = NoVersion
  /\ pc' = "mkdir"
  /\ UNCHANGED << b, i, dirExists, files, inflight, chain, contents, cl, out,
                  opsDone, faults, created, completed, swallowed, failed,
                  kernelLine >>

\* try { await Deno.mkdir(testDir) } catch { }, then the first bucket starts.
Mkdir ==
  /\ pc = "mkdir"
  /\ \E o \in Outcomes(~dirExists) :
       /\ dirExists' = (dirExists \/ o = "ok")
       /\ swallowed' = IF o = "ok" THEN swallowed
                       ELSE swallowed \cup {"mkdir:" \o o}
       /\ faults' = FaultsAfter(o)
  /\ pc' = "write"
  /\ b' = 1
  /\ i' = 0
  /\ opsDone' = 0
  /\ created' = {}
  /\ UNCHANGED << files, inflight, chain, contents, cl, out, completed, failed,
                  kernelVersion, kernelLine >>

\* Mutant: the failure is caught and ignored; the script goes on where it was.
SkipFailed(op, o) ==
  /\ inflight' = inflight \ {op}
  /\ faults' = FaultsAfter(o)
  /\ UNCHANGED << pc, b, i, dirExists, files, chain, contents, cl, out, opsDone,
                  created, completed, swallowed, failed,
                  kernelVersion, kernelLine >>

\* An uncaught failure of an awaited operation ends the run.
Abort(op, o) ==
  /\ pc' = "aborted"
  /\ failed' = [op |-> op, at |-> pc]
  /\ inflight' = inflight \ {op}
  /\ faults' = FaultsAfter(o)
  /\ UNCHANGED << b, i, dirExists, files, chain, contents, cl, out, opsDone,
                  created, completed, swallowed, kernelVersion, kernelLine >>


\* A line of timing output: the benchmark, the bucket, the operations the
\* timer covered and what the elapsed time is divided by.
Line(label, bucket, ops, per) ==
  [label |-> label, bucket |-> bucket, ops |-> ops, per |-> per]

\* The awaited operation op completes successfully, and the code that awaited
\* it issues the operations in next.
Completes(op, next) ==
  /\ files' = IF op.kind = "write"
              THEN WriteResult(files, op.path, op.size, op.text)
              ELSE files
  /\ created' = IF op.kind = "write"
                THEN created \cup {EntryOf(op.path)}
                ELSE created
  /\ inflight' = (inflight \ {op}) \cup next
  /\ UNCHANGED << dirExists, faults, failed, swallowed, cl,
                  kernelVersion, kernelLine >>

\* The top-level sequence issues op and awaits it.
Issue(op) ==
  /\ inflight = {}
  /\ inflight' = {op}
  /\ UNCHANGED << pc, b, i, dirExists, files, chain, contents, cl, out,
                  opsDone, faults, created, completed, swallowed, failed,
                  kernelVersion, kernelLine >>

(* --------------------- benchWrite, lines 132-142 ----------------------- *)

BenchWriteIssue ==
  /\ pc = "write"
  /\ i < ITERATIONS
  /\ Issue(Op("write", WritePath(testDir, i), -1, SIZES[b].size, ""))

BenchWriteDone ==
  /\ pc = "write"
  /\ \E op \in inflight : \E o \in Outcomes(CanDo(op)) :
       IF o = "ok"
       THEN /\ Completes(op, {})
            /\ i' = i + 1
            /\ opsDone' = opsDone + 1
            /\ UNCHANGED << pc, b, chain, contents, out, completed >>
       ELSE Abort(op, o)

\* return elapsed / iterations; line 76 prints it; benchRead is entered.
BenchWriteReturn ==
  /\ pc = "write"
  /\ i = ITERATIONS
  /\ inflight = {}
  /\ out' = Append(out, Line("Write", b, opsDone, ITERATIONS))
  /\ pc' = "readSetup"
  /\ i' = 0
  /\ opsDone' = 0
  /\ UNCHANGED << b, dirExists, files, inflight, chain, contents, cl, faults,
                  created, completed, swallowed, failed,
                  kernelVersion, kernelLine >>

(* ---------------------- benchRead, lines 144-158 ----------------------- *)

BenchReadSetupIssue ==
  /\ pc = "readSetup"
  /\ i < ITERATIONS
  /\ Issue(Op("write", ReadPath(testDir, i), -1, SIZES[b].size, ""))

\* Mutant of lines 147-149: the read loop begins after the first setup write.
BenchReadSetupDoneEarly ==
  /\ pc = "readSetup"
  /\ \E op \in inflight : \E o \in Outcomes(CanDo(op)) :
       IF o = "ok"
       THEN /\ Completes(op, {})
            /\ i' = 0
            /\ pc' = "read"
            /\ opsDone' = 0
            /\ UNCHANGED << b, chain, contents, out, completed >>
       ELSE Abort(op, o)

\* After the last setup write the timer is started and the read loop begins.
BenchReadSetupDone ==
  /\ pc = "readSetup"
  /\ \E op \in inflight : \E o \in Outcomes(CanDo(op)) :
       IF o = "ok"
       THEN /\ Completes(op, {})
            /\ i' = IF i + 1 < ITERATIONS THEN i + 1 ELSE 0
            /\ pc' = IF i + 1 < ITERATIONS THEN "readSetup" ELSE "read"
            /\ opsDone' = 0
            /\ UNCHANGED << b, chain, contents, out, completed >>
       ELSE Abort(op, o)

BenchReadIssue ==
  /\ pc = "read"
  /\ i < ITERATIONS
  /\ Issue(Op("read", ReadPath(testDir, i), -1, 0, ""))

BenchReadDone ==
  /\ pc = "read"
  /\ \E op \in inflight : \E o \in Outcomes(CanDo(op)) :
       IF o = "ok"
       THEN /\ Completes(op, {})
            /\ i' = i + 1
            /\ opsDone' = opsDone + 1
            /\ UNCHANGED << pc, b, chain, contents, out, completed >>
       ELSE Abort(op, o)

BenchReadReturn ==
  /\ pc = "read"
  /\ i = ITERATIONS
  /\ inflight = {}
  /\ out' = Append(out, Line("Read", b, opsDone, ITERATIONS))
  /\ pc' = "statSetup"
  /\ i' = 0
  /\ opsDone' = 0
  /\ UNCHANGED << b, dirExists, files, inflight, chain, contents, cl, faults,
                  created, completed, swallowed, failed,
                  kernelVersion, kernelLine >>

(* ---------------------- benchStat, lines 160-171 ----------------------- *)

\* new Uint8Array([1, 2, 3])
StatPayload == 3

BenchStatSetupIssue ==
  /\ pc = "statSetup"
  /\ Issue(Op("write", StatPath(testDir), -1, StatPayload, ""))

BenchStatSetupDone ==
  /\ pc = "statSetup"
  /\ \E op \in inflight : \E o \in Outcomes(CanDo(op)) :
       IF o = "ok"
       THEN /\ Completes(op, {})
            /\ pc' = "stat"
            /\ i' = 0
            /\ opsDone' = 0
            /\ UNCHANGED << b, chain, contents, out, completed >>
       ELSE Abort(op, o)

BenchStatIssue ==
  /\ pc = "stat"
  /\ i < ITERATIONS
  /\ Issue(Op("stat", StatPath(testDir), -1, 0, ""))

BenchStatDone ==
  /\ pc = "stat"
  /\ \E op \in inflight : \E o \in Outcomes(CanDo(op)) :
       IF o = "ok"
       THEN /\ Completes(op, {})
            /\ i' = i + 1
            /\ opsDone' = opsDone + 1
            /\ UNCHANGED << pc, b, chain, contents, out, completed >>
       ELSE Abort(op, o)

\* Mutant of line 166: the last stat is not awaited.
BenchStatReturnEarly ==
  /\ pc = "stat"
  /\ i = ITERATIONS - 1
  /\ inflight # {}
  /\ out' = Append(out, Line("Stat", b, opsDone, ITERATIONS))
  /\ pc' = "cleanup"
  /\ cl' = CleanupCall("single")
  /\ i' = 0
  /\ opsDone' = 0
  /\ UNCHANGED << b, dirExists, files, inflight, chain, contents, faults,
                  created, completed, swallowed, failed,
                  kernelVersion, kernelLine >>

\* return elapsed / iterations; line 84 prints it; line 87 calls cleanup.
BenchStatReturn ==
  /\ pc = "stat"
  /\ i = ITERATIONS
  /\ inflight = {}
  /\ out' = Append(out, Line("Stat", b, opsDone, ITERATIONS))
  /\ pc' = "cleanup"
  /\ cl' = CleanupCall("single")
  /\ i' = 0
  /\ opsDone' = 0
  /\ UNCHANGED << b, dirExists, files, inflight, chain, contents, faults,
                  created, completed, swallowed, failed,
                  kernelVersion, kernelLine >>


(* ----------------------- cleanup, lines 228-246 ------------------------ *)

\* Mutants of line 231: the suffix mistyped; the isFile test dropped.
ShouldRemoveWrongSuffix(name, entry) ==
  entry.kind = "file" /\ EndsWith(name, ".temp")
ShouldRemoveAnyKind(name, entry) == EndsWith(name, ".tmp")

\* Line 231: the entries of the listing the first loop removes.
ShouldRemove(name, entry) == entry.kind = "file" /\ EndsWith(name, ".tmp")

\* Mutant of lines 243-245: no outer catch, the failure reaches the top level.
Uncaught(p) == "aborted"

\* Lines 243-245: the outer catch.  A failure of readDir or of a remove of the
\* first loop is caught inside cleanup: the script stays where it called it.
OuterCatch(p) == p

\* Where cleanup goes once the entries in todo are left to visit.
AfterTmp(todo) == IF todo = {} THEN "json" ELSE "tmp"

\* Line 230: Deno.readDir(dir).  A failure is caught by the outer catch, and
\* cleanup returns.
CleanupReadDir ==
  /\ pc = "cleanup"
  /\ cl.at = "readDir"
  /\ \E o \in Outcomes(dirExists) :
       /\ faults' = FaultsAfter(o)
       /\ IF o = "ok"
          THEN LET todo == {n \in DOMAIN files : ShouldRemove(n, files[n])}
               IN /\ cl' = [cl EXCEPT !.at = AfterTmp(todo), !.todo = todo,
                                      !.j = 1, !.listed = TRUE]
                  /\ UNCHANGED swallowed
          ELSE /\ cl' = [cl EXCEPT !.at = "ret"]
               /\ swallowed' = swallowed \cup {"readDir:" \o o}
       /\ pc' = IF o = "ok" THEN pc ELSE OuterCatch(pc)
  /\ UNCHANGED << b, i, dirExists, files, inflight, chain, contents, out,
                  opsDone, created, completed, failed,
                  kernelVersion, kernelLine >>

\* Line 230: the entry the loop visits next.  The listing is visited in one
\* fixed order; which order the file system lists in is not modelled.
NextListed(todo) == CHOOSE n \in todo : TRUE

\* Line 232: Deno.remove of a listed .tmp file, in the order of the listing.
\* A failure leaves the loop through the outer catch: cleanup returns.
TmpRemoveFailed(c) == [c EXCEPT !.at = "ret"]

\* Mutant of lines 230-234: the loop is left after the first removal.
CleanupRemoveTmpOnce ==
  /\ pc = "cleanup"
  /\ cl.at = "tmp"
  /\ \E n \in {NextListed(cl.todo)} :
       \E o \in Outcomes(CanRemove(dirExists, files, n)) :
       /\ faults' = FaultsAfter(o)
       /\ IF o = "ok"
          THEN /\ files' = RemoveResult(files, n)
               /\ cl' = [cl EXCEPT !.todo = {}, !.at = "json",
                                   !.removed = cl.removed \cup {n}]
               /\ UNCHANGED swallowed
          ELSE /\ cl' = TmpRemoveFailed(cl)
               /\ swallowed' = swallowed \cup {"removeTmp:" \o o}
               /\ UNCHANGED files
       /\ pc' = IF o = "ok" THEN pc ELSE OuterCatch(pc)
  /\ UNCHANGED << b, i, dirExists, inflight, chain, contents, out,
                  opsDone, created, completed, failed,
                  kernelVersion, kernelLine >>

CleanupRemoveTmp ==
  /\ pc = "cleanup"
  /\ cl.at = "tmp"
  /\ \E n \in {NextListed(cl.todo)} :
       \E o \in Outcomes(CanRemove(dirExists, files, n)) :
       /\ faults' = FaultsAfter(o)
       /\ IF o = "ok"
          THEN /\ files' = RemoveResult(files, n)
               /\ cl' = [cl EXCEPT !.todo = cl.todo \ {n},
                                   !.at = AfterTmp(cl.todo \ {n}),
                                   !.removed = cl.removed \cup {n}]
               /\ UNCHANGED swallowed
          ELSE /\ cl' = TmpRemoveFailed(cl)
               /\ swallowed' = swallowed \cup {"removeTmp:" \o o}
               /\ UNCHANGED files
       /\ pc' = IF o = "ok" THEN pc ELSE OuterCatch(pc)
  /\ UNCHANGED << b, i, dirExists, inflight, chain, contents, out,
                  opsDone, created, completed, failed,
                  kernelVersion, kernelLine >>

\* Lines 236-242: Deno.remove of the next scenario name, a failure ignored.
CleanupRemoveJson ==
  /\ pc = "cleanup"
  /\ cl.at = "json"
  /\ LET n == CleanupJsonNames[cl.j]
     IN \E o \in Outcomes(CanRemove(dirExists, files, n)) :
          /\ faults' = FaultsAfter(o)
          /\ files' = IF o = "ok" THEN RemoveResult(files, n) ELSE files
          /\ swallowed' = IF o = "ok" THEN swallowed
                          ELSE swallowed \cup {"removeJson:" \o o}
          /\ cl' = [cl EXCEPT
                      !.j = cl.j + 1,
                      !.at = IF cl.j < Len(CleanupJsonNames) THEN "json" ELSE "ret",
                      !.tried = cl.tried \cup {n},
                      !.removed = IF o = "ok" THEN cl.removed \cup {n}
                                  ELSE cl.removed]
  /\ UNCHANGED << pc, b, i, dirExists, inflight, chain, contents, out,
                  opsDone, created, completed, failed,
                  kernelVersion, kernelLine >>

\* Mutant of line 71: the loop is left after its first bucket.
SingleLoopNextOnce ==
  /\ pc = "cleanup"
  /\ cl.at = "ret"
  /\ cl.caller = "single"
  /\ cl' = ClIdle
  /\ pc' = "conc"
  /\ b' = 1
  /\ created' = {}
  /\ UNCHANGED << i, dirExists, files, inflight, chain, contents, out,
                  opsDone, faults, completed, swallowed, failed,
                  kernelVersion, kernelLine >>

\* Lines 87-89 and 71: cleanup has returned to the single-operation loop, which
\* goes on with the next bucket or is left for the concurrent loop.
SingleLoopNext ==
  /\ pc = "cleanup"
  /\ cl.at = "ret"
  /\ cl.caller = "single"
  /\ cl' = ClIdle
  /\ pc' = IF b < NumSizes THEN "write" ELSE "conc"
  /\ b' = IF b < NumSizes THEN b + 1 ELSE 1
  /\ created' = {}
  /\ UNCHANGED << i, dirExists, files, inflight, chain, contents, out,
                  opsDone, faults, completed, swallowed, failed,
                  kernelVersion, kernelLine >>


(* -------------------- benchConcurrent, lines 173-191 ------------------- *)

\* Mutant of line 178: the loop stops one chain short.
ChainsShort == 0 .. CONCURRENT_OPS - 2

\* Line 178: the indices of the chains.
Chains == 0 .. CONCURRENT_OPS - 1

\* Mutant of lines 181-183: the stat before the read.
ChainNextSwapped(kind) ==
  CASE kind = "write" -> "stat"
    [] kind = "stat" -> "read"
    [] OTHER -> "done"

\* Lines 181-183: what a chain awaits after the operation it awaited.
ChainNext(kind) ==
  CASE kind = "write" -> "read"
    [] kind = "read" -> "stat"
    [] OTHER -> "done"

\* Mutant of line 180: the index left out of the path.
ChainPathShared(dir, c) == ConcurrentPath(dir, 0)

\* Line 180: the path of chain c.
ChainPath(dir, c) == ConcurrentPath(dir, c)

\* Mutant of line 187: the first promise to resolve is enough (Promise.race).
AnyDone(ch) == \E c \in DOMAIN ch : ch[c] = "done"

\* Line 187: Promise.all(promises) resolves when every promise has resolved.
AllDone(ch) == \A c \in DOMAIN ch : ch[c] = "done"

\* Lines 176-187: the timer is started and the loop starts every chain; each
\* runs up to its first await, so every chain's write is issued before any
\* operation completes.
ConcLaunch ==
  /\ pc = "conc"
  /\ inflight = {}
  /\ inflight' = {Op("write", ChainPath(testDir, c), c, SIZES[b].size, "") :
                    c \in Chains}
  /\ chain' = [c \in Chains |-> "write"]
  /\ pc' = "concJoin"
  /\ opsDone' = 0
  /\ completed' = {}
  /\ UNCHANGED << b, i, dirExists, files, contents, cl, out, faults, created,
                  swallowed, failed,
                  kernelVersion, kernelLine >>

\* The operation chain c awaits completes, and the chain issues its next one.
\* A failure rejects the chain's promise, so Promise.all rejects and the
\* top-level await throws.
ChainStep(c) ==
  /\ pc = "concJoin"
  /\ \E op \in {x \in inflight : x.who = c} : \E o \in Outcomes(CanDo(op)) :
       IF o = "ok"
       THEN LET k == ChainNext(op.kind)
            IN /\ Completes(op, IF k = "done" THEN {}
                                ELSE {Op(k, op.path, c, 0, "")})
               /\ chain' = [chain EXCEPT ![c] = k]
               /\ completed' = completed \cup {op}
               /\ opsDone' = opsDone + 1
               /\ UNCHANGED << pc, b, i, contents, out >>
       ELSE Abort(op, o)

\* Mutant of line 187: Promise.all is not awaited.
ConcReturnUnjoined ==
  /\ pc = "concJoin"
  /\ out' = out \o << Line("Concurrent", b, opsDone, 1),
                      Line("Per operation", b, opsDone, CONCURRENT_OPS) >>
  /\ pc' = "cleanup"
  /\ cl' = CleanupCall("conc")
  /\ opsDone' = 0
  /\ UNCHANGED << b, i, dirExists, files, inflight, chain, contents, faults,
                  created, completed, swallowed, failed,
                  kernelVersion, kernelLine >>

\* Lines 188-190 and 99-102: the timer is stopped, the two lines are printed
\* and cleanup is called.
ConcReturn ==
  /\ pc = "concJoin"
  /\ AllDone(chain)
  /\ out' = out \o << Line("Concurrent", b, opsDone, 1),
                      Line("Per operation", b, opsDone, CONCURRENT_OPS) >>
  /\ pc' = "cleanup"
  /\ cl' = CleanupCall("conc")
  /\ opsDone' = 0
  /\ UNCHANGED << b, i, dirExists, files, inflight, chain, contents, faults,
                  created, completed, swallowed, failed,
                  kernelVersion, kernelLine >>

\* Lines 102-104 and 95: the concurrent loop goes on with the next bucket or
\* is left for the composite scenario.
ConcLoopNext ==
  /\ pc = "cleanup"
  /\ cl.at = "ret"
  /\ cl.caller = "conc"
  /\ cl' = ClIdle
  /\ pc' = IF b < NumSizes THEN "conc" ELSE "rwWrite"
  /\ b' = IF b < NumSizes THEN b + 1 ELSE b
  /\ created' = {}
  /\ chain' = << >>
  /\ completed' = {}
  /\ UNCHANGED << i, dirExists, files, inflight, contents, out, opsDone,
                  faults, swallowed, failed,
                  kernelVersion, kernelLine >>


(* ---------------- benchRealWorldScenario, lines 193-226 ---------------- *)

Docs == 1 .. Len(ScenarioFiles)

\* JSON.parse(content): the texts JSON.stringify produced parse, others throw.
JsonParses(text) == text \in {ScenarioFiles[d].content : d \in Docs}

\* How a read of a scenario file can complete: as any read, or, as a
\* transient failure of the file system, with a text that is not what the
\* file holds.
ReadOutcomes(can) ==
  Outcomes(can) \cup (IF can /\ faults < MaxFaults THEN {"garbled"} ELSE {})

\* Lines 202-209: the timer is started; files.map calls writeTextFile for
\* every document before Promise.all is awaited.
ScenarioLaunchWrites ==
  /\ pc = "rwWrite"
  /\ inflight = {}
  /\ inflight' = {Op("write", ScenarioPath(testDir, d), d,
                     Len(ScenarioFiles[d].content), ScenarioFiles[d].content) :
                    d \in Docs}
  /\ chain' = [d \in Docs |-> "write"]
  /\ pc' = "rwJoinWrite"
  /\ opsDone' = 0
  /\ completed' = {}
  /\ contents' = << >>
  /\ UNCHANGED << b, i, dirExists, files, cl, out, faults, created,
                  swallowed, failed,
                  kernelVersion, kernelLine >>

\* One operation of the awaited fan-out completes.
ScenarioOpDone(at, d) ==
  /\ pc = at
  /\ \E op \in {x \in inflight : x.who = d} : \E o \in Outcomes(CanDo(op)) :
       IF o = "ok"
       THEN /\ Completes(op, {})
            /\ chain' = [chain EXCEPT ![d] = "done"]
            /\ completed' = completed \cup {op}
            /\ opsDone' = opsDone + 1
            /\ UNCHANGED << pc, b, i, contents, out >>
       ELSE Abort(op, o)

ScenarioWriteDone(d) == ScenarioOpDone("rwJoinWrite", d)

\* Lines 212-214: after every write, files.map calls readTextFile for every
\* document.
ScenarioLaunchReads ==
  /\ pc = "rwJoinWrite"
  /\ AllDone(chain)
  /\ inflight' = {Op("read", ScenarioPath(testDir, d), d, 0, "") : d \in Docs}
  /\ chain' = [d \in Docs |-> "read"]
  /\ pc' = "rwJoinRead"
  /\ UNCHANGED << b, i, dirExists, files, contents, cl, out, opsDone, faults,
                  created, completed, swallowed, failed,
                  kernelVersion, kernelLine >>

ScenarioReadDone(d) ==
  /\ pc = "rwJoinRead"
  /\ \E op \in {x \in inflight : x.who = d} :
       \E o \in ReadOutcomes(CanDo(op)) :
         IF o \in {"ok", "garbled"}
         THEN /\ files' = files
              /\ created' = created
              /\ inflight' = inflight \ {op}
              /\ faults' = IF o = "ok" THEN faults ELSE faults + 1
              /\ contents' = (d :> (IF o = "ok" THEN files[EntryOf(op.path)].text
                                    ELSE "garbled")) @@ contents
              /\ chain' = [chain EXCEPT ![d] = "done"]
              /\ completed' = completed \cup {op}
              /\ opsDone' = opsDone + 1
              /\ UNCHANGED << pc, b, i, out, dirExists, failed, swallowed, cl,
                  kernelVersion, kernelLine >>
         ELSE Abort(op, o)

\* Line 217: contents.forEach starts once every read has completed.
ScenarioJoinReads ==
  /\ pc = "rwJoinRead"
  /\ AllDone(chain)
  /\ pc' = "rwParse"
  /\ i' = 1
  /\ UNCHANGED << b, dirExists, files, inflight, chain, contents, cl, out,
                  opsDone, faults, created, completed, swallowed, failed,
                  kernelVersion, kernelLine >>

\* Line 217: JSON.parse of the next content; a throw is not caught.
ScenarioParse ==
  /\ pc = "rwParse"
  /\ i <= Len(ScenarioFiles)
  /\ IF JsonParses(contents[i])
     THEN /\ i' = i + 1
          /\ completed' = completed \cup {Op("parse", ScenarioPath(testDir, i), i, 0, "")}
          /\ UNCHANGED << pc, b, dirExists, files, inflight, chain, contents,
                          cl, out, opsDone, faults, created, swallowed,
                          failed,
                  kernelVersion, kernelLine >>
     ELSE Abort(Op("parse", ScenarioPath(testDir, i), i, 0, ""), "fail")

\* Mutant of lines 217-222: the stats are started after the first parse.
ScenarioLaunchStatsEarly ==
  /\ pc = "rwParse"
  /\ i > 1
  /\ inflight' = {Op("stat", ScenarioPath(testDir, d), d, 0, "") : d \in Docs}
  /\ chain' = [d \in Docs |-> "stat"]
  /\ pc' = "rwJoinStat"
  /\ i' = 0
  /\ UNCHANGED << b, dirExists, files, contents, cl, out, opsDone, faults,
                  created, completed, swallowed, failed,
                  kernelVersion, kernelLine >>

\* Lines 220-222: after the last parse, files.map calls stat for every document.
ScenarioLaunchStats ==
  /\ pc = "rwParse"
  /\ i > Len(ScenarioFiles)
  /\ inflight' = {Op("stat", ScenarioPath(testDir, d), d, 0, "") : d \in Docs}
  /\ chain' = [d \in Docs |-> "stat"]
  /\ pc' = "rwJoinStat"
  /\ i' = 0
  /\ UNCHANGED << b, dirExists, files, contents, cl, out, opsDone, faults,
                  created, completed, swallowed, failed,
                  kernelVersion, kernelLine >>

ScenarioStatDone(d) == ScenarioOpDone("rwJoinStat", d)

\* Mutant of lines 220-222: the stats are given up after a while (a timeout).
ScenarioReturnTimeout ==
  /\ pc = "rwJoinStat"
  /\ out' = Append(out, Line("Processing time", 0, opsDone, 1))
  /\ pc' = "cleanup"
  /\ cl' = CleanupCall("final")
  /\ opsDone' = 0
  /\ UNCHANGED << b, i, dirExists, files, inflight, chain, contents, faults,
                  created, completed, swallowed, failed,
                  kernelVersion, kernelLine >>

\* Lines 224-225 and 111-114: the timer is stopped, the line is printed and
\* the final cleanup is called.
ScenarioReturn ==
  /\ pc = "rwJoinStat"
  /\ AllDone(chain)
  /\ out' = Append(out, Line("Processing time", 0, opsDone, 1))
  /\ pc' = "cleanup"
  /\ cl' = CleanupCall("final")
  /\ opsDone' = 0
  /\ UNCHANGED << b, i, dirExists, files, inflight, chain, contents, faults,
                  created, completed, swallowed, failed,
                  kernelVersion, kernelLine >>

(* ------------------------ top level, lines 113-119 --------------------- *)

FinalCleanupDone ==
  /\ pc = "cleanup"
  /\ cl.at = "ret"
  /\ cl.caller = "final"
  /\ cl' = ClIdle
  /\ pc' = "rmdir"
  /\ UNCHANGED << b, i, dirExists, files, inflight, chain, contents, out,
                  opsDone, faults, created, completed, swallowed, failed,
                  kernelVersion, kernelLine >>

\* try { await Deno.remove(testDir) } catch { }
Teardown ==
  /\ pc = "rmdir"
  /\ \E o \in Outcomes(CanRemoveDir(dirExists, files)) :
       /\ dirExists' = (dirExists /\ o # "ok")
       /\ swallowed' = IF o = "ok" THEN swallowed
                       ELSE swallowed \cup {"rmdir:" \o o}
       /\ faults' = FaultsAfter(o)
  /\ pc' = "done"
  /\ UNCHANGED << b, i, files, inflight, chain, contents, cl, out, opsDone,
                  created, completed, failed,
                  kernelVersion, kernelLine >>

(* --------------------------- specification ----------------------------- *)

Next ==
  \/ Probe
  \/ KernelCheck
  \/ ProbeEnd
  \/ Mkdir
  \/ BenchWriteIssue
  \/ BenchWriteDone
  \/ BenchWriteReturn
  \/ BenchReadSetupIssue
  \/ BenchReadSetupDone
  \/ BenchReadIssue
  \/ BenchReadDone
  \/ BenchReadReturn
  \/ BenchStatSetupIssue
  \/ BenchStatSetupDone
  \/ BenchStatIssue
  \/ BenchStatDone
  \/ BenchStatReturn
  \/ CleanupReadDir
  \/ CleanupRemoveTmp
  \/ CleanupRemoveJson
  \/ SingleLoopNext
  \/ ConcLaunch
  \/ \E c \in Chains : ChainStep(c)
  \/ ConcReturn
  \/ ConcLoopNext
  \/ ScenarioLaunchWrites
  \/ \E d \in Docs : ScenarioWriteDone(d)
  \/ ScenarioLaunchReads
  \/ \E d \in Docs : ScenarioReadDone(d)
  \/ ScenarioJoinReads
  \/ ScenarioParse
  \/ ScenarioLaunchStats
  \/ \E d \in Docs : ScenarioStatDone(d)
  \/ ScenarioReturn
  \/ FinalCleanupDone
  \/ Teardown

Spec == Init /\ [][Next]_vars


\* The runs whose progress is examined start without the directory, on an
\* empty one, or on one that holds all the entries of PreExisting.
InitLive == Init /\ DOMAIN files \in {{}, DOMAIN PreExisting}

\* The event loop runs the script on while a step of it is possible, and an
\* operation that was issued completes.
SpecLive == InitLive /\ [][Next]_vars /\ WF_vars(Next)

(* ------------------- cleanup called twice in a row --------------------- *)

\* The directories cleanup is called on: the entries a run can find or leave.
CleanupEntries ==
  PreExisting @@
  ("stat.tmp" :> File(StatPayload, "")) @@
  ("config.json" :> File(Len(ScenarioFiles[1].content), ScenarioFiles[1].content))

InitCleanup ==
  /\ pc = "cleanup"
  /\ b = 1
  /\ i = 0
  /\ dirExists \in BOOLEAN
  /\ files \in IF dirExists
               THEN {Restrict(CleanupEntries, S) : S \in SUBSET DOMAIN CleanupEntries}
               ELSE {EmptyFs}
  /\ inflight = {}
  /\ chain = << >>
  /\ contents = << >>
  /\ out = << >>
  /\ opsDone = 0
  /\ faults = 0
  /\ cl = CleanupCall("first")
  /\ created = {}
  /\ completed = {}
  /\ swallowed = {}
  /\ failed = NoFailure
  /\ kernelVersion = NoVersion
  /\ kernelLine = "none"

\* cleanup has returned from the first call and is called again.
CleanupAgain ==
  /\ pc = "cleanup"
  /\ cl.at = "ret"
  /\ cl.caller = "first"
  /\ cl' = CleanupCall("second")
  /\ UNCHANGED << pc, b, i, dirExists, files, inflight, chain, contents, out,
                  opsDone, faults, created, completed, swallowed, failed,
                  kernelVersion, kernelLine >>

NextCleanup ==
  \/ CleanupReadDir
  \/ CleanupRemoveTmp
  \/ CleanupRemoveJson
  \/ CleanupAgain

SpecCleanup == InitCleanup /\ [][NextCleanup]_vars

(* ------------------------------ properties ----------------------------- *)

JsonNames == {CleanupJsonNames[k] : k \in 1 .. Len(CleanupJsonNames)}

\* cleanup has returned and its caller has not gone on yet.
CleanupReturned == pc = "cleanup" /\ cl.at = "ret"

\* The cleanup call listed the directory and its first loop ran to its end.
TmpLoopCompleted(c) == c.listed /\ c.tried = JsonNames

AfterBucketCleanup == CleanupReturned /\ cl.caller \in {"single", "conc"}

\* The names a phase's scratch files start with.
PhasePrefix(caller, n) ==
  IF caller = "single"
  THEN StartsWith(n, "write_") \/ StartsWith(n, "read_") \/ n = "stat.tmp"
  ELSE StartsWith(n, "concurrent_")

PhaseBegins ==
  \/ pc = "write" /\ i = 0 /\ inflight = {}
  \/ pc = "conc"
  \/ pc = "rwWrite"

\* C2: once the directory has been created, every entry of it was created by
\* the running phase, and it is empty when a phase begins; also when the
\* directory was there, with content, before the run.
C2_WorkspaceInvariant ==
  (dirExists /\ pc \notin {"probe", "kernel", "probed", "mkdir"}) =>
    /\ DOMAIN files \subseteq created
    /\ PhaseBegins => DOMAIN files = {}

Housekeeping == {"mkdir", "cleanup", "rmdir"}

\* A step of housekeeping does not end the run, and leaves the script in
\* cleanup or at what follows the call.
HousekeepingStep ==
  pc \in Housekeeping =>
    /\ pc' # "aborted"
    /\ failed' = failed
    /\ pc = "mkdir" => pc' = "write"
    /\ pc = "rmdir" => pc' = "done"
    /\ pc = "cleanup" => pc' \in {"cleanup", "write", "conc", "rwWrite", "rmdir"}

\* C4: directory creation, every step of cleanup and the final removal of the
\* directory complete whatever mkdir, readDir and remove do: such a step is
\* always possible, never ends the run, and the script goes on with what
\* follows it.
C4_HousekeepingNeverAborts ==
  /\ [](pc \in Housekeeping => ENABLED Next)
  /\ [][HousekeepingStep]_vars

\* A run completed although mkdir failed (the directory was there), a remove
\* of a .tmp file failed, removes of scenario names failed and the removal
\* of the directory failed.
C4_Witness ==
  /\ pc = "done"
  /\ {"mkdir:fail", "removeTmp:fault", "removeJson:fail", "rmdir:fail"}
       \subseteq swallowed


SecondReturned == CleanupReturned /\ cl.caller = "second"

ChainOp(op) == \E c \in Chains : op.who = c /\ op.path = ConcurrentPath(testDir, c)

\* An operation of kind on path has completed in the running fan-out.
Done(kind, path) == \E x \in completed : x.kind = kind /\ x.path = path

\* C6: in every chain, the read of concurrent_i.tmp is in flight only after
\* the write of concurrent_i.tmp completed, and the stat only after the read
\* completed, however the chains interleave.
C6_ChainOrder ==
  /\ \A op \in inflight :
       ChainOp(op) =>
         /\ op.kind = "read" => Done("write", op.path)
         /\ op.kind = "stat" => Done("write", op.path) /\ Done("read", op.path)
  /\ \A x \in completed :
       ChainOp(x) =>
         /\ x.kind = "read" => Done("write", x.path)
         /\ x.kind = "stat" => Done("read", x.path)

\* No order across chains: chain 0 awaits its stat while chain 1 still awaits
\* its write.
C6_Witness ==
  /\ pc = "concJoin"
  /\ chain[0] = "stat"
  /\ chain[1] = "write"
  /\ Op("stat", ConcurrentPath(testDir, 0), 0, 0, "") \in inflight

\* C7: no two operations in flight at the same time target the same file.
C7_UniqueTargets ==
  \A o1 \in inflight : \A o2 \in inflight : o1 # o2 => o1.path # o2.path

\* Every chain has an operation in flight, of different kinds.
C7_Witness ==
  /\ pc = "concJoin"
  /\ Cardinality(inflight) = CONCURRENT_OPS
  /\ \E o1 \in inflight : o1.kind = "write"
  /\ \E o2 \in inflight : o2.kind = "stat"

\* Every document's operation of kind has completed in the running scenario.
AllDocsDone(kind) == \A d \in Docs : Done(kind, ScenarioPath(testDir, d))

\* C8: when control has left a fan-out, every operation of the batch has
\* completed and none is in flight; the time benchConcurrent reports covers
\* the write, the read and the stat of every chain.
C8_Barrier ==
  /\ (pc = "cleanup" /\ cl.caller = "conc") =>
       /\ inflight = {}
       /\ \A c \in Chains : \A k \in {"write", "read", "stat"} :
            Done(k, ConcurrentPath(testDir, c))
       /\ out[Len(out) - 1] = Line("Concurrent", b, 3 * CONCURRENT_OPS, 1)
  /\ pc = "rwJoinRead" =>
       /\ AllDocsDone("write")
       /\ \A op \in inflight : op.kind = "read"
  /\ pc = "rwParse" => AllDocsDone("read") /\ inflight = {}
  /\ (pc = "cleanup" /\ cl.caller = "final") =>
       AllDocsDone("stat") /\ inflight = {}

\* benchConcurrent has returned for the last bucket and cleanup has been
\* called.
C8_Witness ==
  /\ pc = "cleanup"
  /\ cl.caller = "conc"
  /\ cl.at = "readDir"
  /\ b = NumSizes
  /\ Cardinality(completed) = 3 * CONCURRENT_OPS

ScenarioOp(op) == \E d \in Docs : op.who = d /\ op.path = ScenarioPath(testDir, d)

\* C9: in the composite scenario no read is in flight before all four writes
\* completed, no document is parsed before all four reads completed, no stat
\* is in flight before all four documents were parsed, and the documents are
\* parsed one after the other, in order, with nothing in flight.
C9_StepOrder ==
  /\ \A op \in inflight :
       ScenarioOp(op) =>
         /\ op.kind = "read" => AllDocsDone("write")
         /\ op.kind = "stat" => AllDocsDone("parse")
  /\ \A x \in completed :
       (ScenarioOp(x) /\ x.kind = "parse") =>
         /\ AllDocsDone("read")
         /\ \A d \in 1 .. x.who - 1 : Done("parse", ScenarioPath(testDir, d))
  /\ pc = "rwParse" => inflight = {}

\* Two of the four stats are still in flight, after every parse.
C9_Witness ==
  /\ pc = "rwJoinStat"
  /\ Cardinality(inflight) = 2
  /\ AllDocsDone("parse")

\* The labels of the lines a benchmark prints.
LabelsAt(at) ==
  CASE at = "write" -> {"Write"}
    [] at \in {"readSetup", "read"} -> {"Read"}
    [] at \in {"statSetup", "stat"} -> {"Stat"}
    [] at = "concJoin" -> {"Concurrent", "Per operation"}
    [] OTHER -> {"Processing time"}

BucketAt(at, bucket) ==
  IF at \in {"write", "readSetup", "read", "statSetup", "stat", "concJoin"}
  THEN bucket ELSE 0

\* The awaited operation op fails in this step: it could not succeed, or the
\* file system failed it.
OpFails(op) ==
  /\ op \in inflight
  /\ op \notin inflight'
  /\ ~CanDo(op) \/ (faults' > faults /\ contents' = contents)

FailFastStep ==
  /\ pc # "aborted"
  /\ \A op \in inflight :
       OpFails(op) => pc' = "aborted" /\ failed'.op = op /\ out' = out
  /\ (pc = "rwParse" /\ i <= Len(ScenarioFiles) /\ ~JsonParses(contents[i])) =>
       pc' = "aborted" /\ failed'.op.kind = "parse" /\ out' = out
  /\ pc' = "aborted" =>
       \A k \in 1 .. Len(out') :
         ~(/\ out'[k].label \in LabelsAt(failed'.at)
           /\ out'[k].bucket = BucketAt(failed'.at, b'))

\* C10: a benchmark operation or a parse that fails ends the run: the step
\* in which it fails leads to the aborted state, with no timing line of that
\* benchmark printed, and no step follows it (no retry, no later bucket or
\* phase).
C10_FailFast == [][FailFastStep]_vars

\* The run was ended by a parse that threw, after both loops had printed all
\* their lines.
C10_Witness ==
  /\ pc = "aborted"
  /\ failed.op.kind = "parse"
  /\ Len(out) = 5 * NumSizes

\* The names of the scratch files of the benchmarks and of the scenario's
\* documents.
ScratchNames ==
  {"write_" \o ToString(k) \o ".tmp" : k \in 0 .. ITERATIONS - 1} \cup
  {"read_" \o ToString(k) \o ".tmp" : k \in 0 .. ITERATIONS - 1} \cup
  {"concurrent_" \o ToString(k) \o ".tmp" : k \in 0 .. CONCURRENT_OPS - 1} \cup
  {"stat.tmp"}
DocumentNames == {"config.json", "settings.json", "data.json", "cache.json"}

NoneLeft == DOMAIN files \cap (ScratchNames \cup DocumentNames) = {}

FinalCleanupReturned == CleanupReturned /\ cl.caller = "final"

AfterFinalCleanupStep ==
  (FinalCleanupReturned \/ pc = "rmdir") =>
    /\ files' = files
    /\ pc' \in {"rmdir", "done"}

WriteName(k) == "write_" \o ToString(k) \o ".tmp"
WriteNames == {WriteName(k) : k \in 0 .. ITERATIONS - 1}

\* The positions of the script inside benchRead and benchStat.
AfterBenchWrite == {"readSetup", "read", "statSetup", "stat"}

SingleCleanupReturned == CleanupReturned /\ cl.caller = "single"

\* The entry n is a regular file of the running bucket's size, zero-filled.
BucketFile(n) == n \in DOMAIN files /\ files[n] = File(SIZES[b].size, "")

ConcName(k) == "concurrent_" \o ToString(k) \o ".tmp"
ConcNames == {ConcName(k) : k \in 0 .. CONCURRENT_OPS - 1}

\* The write, the read and the stat of every chain of a batch on bucket k.
BatchOps(k) ==
  {Op("write", PathOf(testDir, ConcName(c)), c, SIZES[k].size, "") :
     c \in 0 .. CONCURRENT_OPS - 1} \cup
  {Op(kind, PathOf(testDir, ConcName(c)), c, 0, "") :
     kind \in {"read", "stat"}, c \in 0 .. CONCURRENT_OPS - 1}

ConcCleanup == pc = "cleanup" /\ cl.caller = "conc"

C14_FreshWriteTarget ==
  pc = "write" => \A op \in inflight : EntryOf(op.path) \notin DOMAIN files

\* How many digits text has from position k on.
RECURSIVE DigitRun(_, _)
DigitRun(text, k) ==
  IF k <= Len(text) /\ IsDigit(CharAt(text, k))
  THEN 1 + DigitRun(text, k + 1)
  ELSE 0

\* The text begins with "<major>.<minor>", both of them numbers.
BeginsWithMajorMinor(text) ==
  LET m == DigitRun(text, 1)
  IN /\ m >= 1
     /\ m + 1 <= Len(text)
     /\ CharAt(text, m + 1) = "."
     /\ DigitRun(text, m + 2) >= 1

LeadingMajor(text) == Decimal(SubSeq(text, 1, DigitRun(text, 1)))
LeadingMinor(text) ==
  LET m == DigitRun(text, 1)
  IN Decimal(SubSeq(text, m + 2, m + 1 + DigitRun(text, m + 2)))

\* The line the kernel check is to print for a text that was read.
ExpectedKernelLine(text) ==
  IF ~BeginsWithMajorMinor(text) THEN "unknown"
  ELSE IF \/ LeadingMajor(text) > 5
          \/ LeadingMajor(text) = 5 /\ LeadingMinor(text) >= 6
       THEN "supports"
       ELSE "does NOT support"

\* C15: the kernel check never ends the run; for a text that begins with
\* "<major>.<minor>" it reports support exactly when major > 5 or major = 5
\* and minor >= 6; and for a text whose major or minor is not a number it
\* prints the "unknown" line, as it does when the file cannot be read.
C15_KernelCheck ==
  /\ pc \in {"kernel", "probed"} => failed = NoFailure
  /\ (pc = "probed" /\ kernelVersion # NoVersion) =>
       kernelLine = ExpectedKernelLine(kernelVersion)

\* The operation the single-operation phase awaits at its position.
AwaitedAt(at) ==
  CASE at = "write" -> Op("write", PathOf(testDir, WriteName(i)), -1, SIZES[b].size, "")
    [] at = "readSetup" -> Op("write", ReadPath(testDir, i), -1, SIZES[b].size, "")
    [] at = "read" -> Op("read", ReadPath(testDir, i), -1, 0, "")
    [] at = "statSetup" -> Op("write", StatPath(testDir), -1, StatPayload, "")
    [] OTHER -> Op("stat", StatPath(testDir), -1, 0, "")

LastLine == out[Len(out)]

\* C16: in the single-operation phase at most one operation is in flight, the
\* one the running benchmark awaits at its loop index; benchRead runs after
\* benchWrite has printed its time over all N writes, benchStat after
\* benchRead has, and the bucket's cleanup runs with nothing in flight, after
\* benchStat has printed its time over all N stats.
C16_OneAtATime ==
  /\ pc \in {"write", "readSetup", "read", "statSetup", "stat"} =>
       /\ Cardinality(inflight) <= 1
       /\ inflight \subseteq {AwaitedAt(pc)}
       /\ inflight # {} => i < ITERATIONS
  /\ pc \in {"readSetup", "read"} =>
       LastLine = Line("Write", b, ITERATIONS, ITERATIONS)
  /\ pc \in {"statSetup", "stat"} =>
       LastLine = Line("Read", b, ITERATIONS, ITERATIONS)
  /\ (pc = "cleanup" /\ cl.caller = "single") =>
       /\ inflight = {}
       /\ LastLine = Line("Stat", b, ITERATIONS, ITERATIONS)

\* The last read of benchRead of the last bucket is the one operation in
\* flight.
C16_Witness ==
  /\ pc = "read"
  /\ b = NumSizes
  /\ i = ITERATIONS - 1
  /\ inflight = {Op("read", ReadPath(testDir, ITERATIONS - 1), -1, 0, "")}

\* The place of a position of the script in the order of the phases: the
\* probe, the creation of the directory, for each bucket the single-operation
\* benchmarks and then their cleanup, for each bucket the concurrent batch and
\* then its cleanup, the scenario, the final cleanup, the removal of the
\* directory, the end.
PhaseRank ==
  CASE pc \in {"probe", "kernel", "probed"} -> 0
    [] pc = "mkdir" -> 1
    [] pc \in {"write", "readSetup", "read", "statSetup", "stat"} -> 2 * b
    [] pc = "cleanup" /\ cl.caller = "single" -> 2 * b + 1
    [] pc \in {"conc", "concJoin"} -> 2 * NumSizes + 2 * b
    [] pc = "cleanup" /\ cl.caller = "conc" -> 2 * NumSizes + 2 * b + 1
    [] pc \in {"rwWrite", "rwJoinWrite", "rwJoinRead", "rwParse", "rwJoinStat"} ->
         4 * NumSizes + 2
    [] pc = "cleanup" /\ cl.caller = "final" -> 4 * NumSizes + 3
    [] pc = "rmdir" -> 4 * NumSizes + 4
    [] pc = "done" -> 4 * NumSizes + 5
    [] OTHER -> -1

\* A step stays in its phase, or enters the next one, or ends the run; a run
\* that was ended stays ended; and the probe's steps follow one another.
PhaseStep ==
  /\ pc \notin {"aborted", "done"}
  /\ pc' # "aborted" => PhaseRank' \in {PhaseRank, PhaseRank + 1}
  /\ pc' \in {"probe", "kernel"} => pc = "probe"
  /\ (pc' = "probed" /\ pc # "probed") => pc \in {"probe", "kernel"}
  /\ (pc = "cleanup" /\ pc' = "cleanup") => cl'.caller = cl.caller

\* The timing lines of a run that completes, in the order of the buckets.
RECURSIVE SingleLines(_)
SingleLines(k) ==
  IF k = 0 THEN << >>
  ELSE SingleLines(k - 1) \o
       << Line("Write", k, ITERATIONS, ITERATIONS),
          Line("Read", k, ITERATIONS, ITERATIONS),
          Line("Stat", k, ITERATIONS, ITERATIONS) >>

RECURSIVE ConcLines(_)
ConcLines(k) ==
  IF k = 0 THEN << >>
  ELSE ConcLines(k - 1) \o
       << Line("Concurrent", k, 3 * CONCURRENT_OPS, 1),
          Line("Per operation", k, 3 * CONCURRENT_OPS, CONCURRENT_OPS) >>

AllLines ==
  SingleLines(NumSizes) \o ConcLines(NumSizes) \o
  << Line("Processing time", 0, 3 * Len(ScenarioFiles), 1) >>

\* C17: a run starts with the probe and goes through the phases in their
\* order, one step of the order at a time: no phase is skipped, entered before
\* the cleanup of the one before it has returned, or entered twice; and a run
\* that completes has printed the lines of the single-operation benchmarks
\* for each bucket in the order of SIZES, then those of the concurrent batches
\* in the same order, then the scenario's line, once each.
C17_PhaseOrder ==
  /\ [](PhaseRank = 0 => out = << >> /\ cl = ClIdle /\ inflight = {})
  /\ [](pc \in {"rmdir", "done"} => out = AllLines)
  /\ [][PhaseStep]_vars

\* A run has completed with all its lines printed, on Linux with a readable
\* kernel version.
C17_Witness ==
  /\ pc = "done"
  /\ out = AllLines
  /\ Len(out) = 5 * NumSizes + 1
  /\ kernelLine = "supports"

\* While an operation stays in flight, the script stays at the position that
\* awaits it, unless the failure of another operation ends the run.
HangStep ==
  \A op \in inflight : op \in inflight' => pc' \in {pc, "aborted"}

\* C18: a run in which no benchmark operation fails and no parse throws
\* reaches its normal end, where nothing is in flight; and as long as one
\* operation has not completed the script does not leave the position that
\* awaits it, so a run with an operation that never completes never reaches
\* its normal end: nothing is given up or timed out.
C18_NoTimeout ==
  /\ <>(pc = "done" \/ failed # NoFailure)
  /\ [](pc = "done" => inflight = {} /\ failed = NoFailure)
  /\ [][HangStep]_vars

\* Three stats of the scenario have completed and the script still awaits
\* the fourth.
C18_Witness ==
  /\ pc = "rwJoinStat"
  /\ Cardinality(inflight) = 1
  /\ failed = NoFailure
  /\ ~AllDone(chain)

ReadNames == {EntryOf(ReadPath(testDir, k)) : k \in 0 .. ITERATIONS - 1}

\* The entry is a regular file that a write of the running phase, completed
\* and not in flight any more, has left there.
Written(n) ==
  /\ n \in created
  /\ n \in DOMAIN files
  /\ files[n].kind = "file"
  /\ \A w \in inflight : w.kind = "write" => EntryOf(w.path) # n

\* C19: every read and every stat that is in flight targets a regular file
\* that is in the directory and that a write of the same phase, completed
\* since the last cleanup, has put there; and while the timed loop of
\* benchRead runs, all N files read_<i>.tmp are written and no write is in
\* flight.
C19_ReadAfterWrite ==
  /\ \A op \in inflight :
       op.kind \in {"read", "stat"} => Written(EntryOf(op.path)) /\ CanDo(op)
  /\ pc = "read" => \A n \in ReadNames : Written(n)
  /\ pc = "stat" => Written(EntryOf(StatPath(testDir)))
  /\ pc \in {"rwJoinRead", "rwParse", "rwJoinStat"} =>
       \A d \in Docs : Written(ScenarioFiles[d].name)

\* The first timed read of benchRead is in flight, after the setup wrote the
\* file over the one that an earlier cleanup, ended by a failure, had left.
C19_Witness ==
  /\ pc = "read"
  /\ b = NumSizes
  /\ i = 0
  /\ inflight = {Op("read", ReadPath(testDir, 0), -1, 0, "")}
  /\ files[EntryOf(ReadPath(testDir, 0))] = File(SIZES[b].size, "")
  /\ "readDir:fault" \in swallowed

\* C20: whenever cleanup is running (listing, removing, or about to return)
\* no operation of a benchmark is in flight, of the single-operation
\* benchmarks, of a chain of a batch or of the scenario; and cleanup is not
\* running while the script is anywhere else.
C20_CleanupAlone ==
  /\ pc = "cleanup" => inflight = {} /\ cl.at # "idle"
  /\ cl.at # "idle" => pc = "cleanup"
  /\ (pc = "cleanup" /\ cl.caller = "conc") => AllDone(chain)

\* The cleanup after a batch is removing the files of the chains, one of
\* them already removed, the others still listed.
C20_Witness ==
  /\ pc = "cleanup"
  /\ cl.caller = "conc"
  /\ cl.at = "tmp"
  /\ cl.removed \cap ConcNames # {}
  /\ cl.todo \cap ConcNames # {}
  /\ inflight = {}

====
